---- MODULE Spec2Model ----
(***************************************************************************)
(* State-machine model of SafeSpace_final.py: the serial auto-detection    *)
(* generator (auto_detect_esp32_port), the serial session                  *)
(* (connect_to_port, scan_bt_data) and the global sensor log.              *)
(*                                                                         *)
(* Byte strings and text are sequences of lexemes: "PONG", "CR", "LF",     *)
(* "SP", "{", "'eda_raw'", ":", "1", ...; "xFF" is a byte that is not      *)
(* valid UTF-8 and "uFFFD" the replacement character.                      *)
(***************************************************************************)
EXTENDS Integers, Sequences, FiniteSets, TLC

\* ---------------------------------------------------------------- bounds
MaxPorts == 3
MaxClock == 3
\* clock ticks per second of wall-clock time
TicksPerSecond == 2
\* confidences are drawn from the multiples of 1 / (2 * GridHalf)
GridHalf == 4

\* ------------------------------------------------------- program constants
None == "None"

AllPortNames == <<"COM3", "COM4", "COM7", "COM8", "COM9">>
NumPorts == IF MaxPorts < Len(AllPortNames) THEN MaxPorts ELSE Len(AllPortNames)
PortNames == {AllPortNames[k] : k \in 1..NumPorts}

\* ------------------------------------------------------------ text helpers
Whitespace == {"SP", "CR", "LF", "TAB"}

RECURSIVE lstrip(_)
lstrip(s) ==
    IF s # <<>> /\ Head(s) \in Whitespace THEN lstrip(Tail(s)) ELSE s

RECURSIVE rstrip(_)
rstrip(s) ==
    IF s # <<>> /\ s[Len(s)] \in Whitespace
    THEN rstrip(SubSeq(s, 1, Len(s) - 1))
    ELSE s

\* variant: the line is used as read, without .strip()
strip_none(s) == s

\* str.strip(): removes leading and trailing whitespace
strip(s) == rstrip(lstrip(s))

\* bytes.decode('utf-8'): fails on a byte that is not valid UTF-8
decode_strict(b) ==
    IF \E k \in 1..Len(b) : b[k] = "xFF"
    THEN [ok |-> FALSE, text |-> <<>>]
    ELSE [ok |-> TRUE, text |-> b]

\* bytes.decode('utf-8', errors='replace'): invalid bytes become U+FFFD
decode_replace(b) == [k \in 1..Len(b) |-> IF b[k] = "xFF" THEN "uFFFD" ELSE b[k]]

\* ------------------------------------------------------------- discovery
\* what a port does when probed: an error at open, at write or at read, or
\* the bytes readline() returns within the read timeout (<<>> on timeout)
ProbeReplies ==
    { <<>>,
      <<"PONG", "CR", "LF">>,
      <<"SP", "PONG", "LF">>,
      <<"PONG", "?", "LF">>,
      <<"xFF", "LF">> }

ProbeErrors == {<<"open_err">>, <<"write_err">>, <<"read_err">>}

ProbeOutcomes == ProbeErrors \cup ProbeReplies

\* list_serial_ports(): the devices comports() enumerates, in order
list_serial_ports(n) == [k \in 1..n |-> AllPortNames[k]]

Event(kind, port, value) == [kind |-> kind, port |-> port, value |-> value]

VARIABLES
    disc_pc,     \* position of the auto-detect generator
    ports,       \* its local: the enumerated port list
    idx,         \* loop position in ports (1-based)
    ser,         \* its local: the port whose handle ser is bound to, or None
    response,    \* its local: the decoded, stripped reply
    disc_open,   \* ports on which this pass holds an open handle
    events,      \* the (message, port) tuples yielded so far by this pass
    retval,      \* the value carried by the generator's return, or None
    tried,       \* ports this pass has attempted to open, in order
    device       \* what each enumerated port does when probed

disc_vars == <<disc_pc, ports, idx, ser, response, disc_open, events, retval,
               tried, device>>

VARIABLES
    bt_serial,    \* the bound serial object, NoHandle for None
    conn_open,    \* the serial objects connect_to_port opened that are open
    sensor_log,   \* timestamp -> parsed payload, in insertion order
    latest_line,  \* the last line that parsed
    clock,        \* wall clock, in ticks
    last_call     \* the last session call: its input and what it returned

sess_vars == <<bt_serial, conn_open, sensor_log, latest_line, clock, last_call>>

VARIABLES
    norm,         \* the last (label, confidence) pair normalised, with its value
    fusion,       \* the last list given to agreement_fusion, with its score
    request       \* the last fused_stress_prediction: its inputs and its verdict

fus_vars == <<norm, fusion, request>>

Suspended == {"at_testing", "at_found", "at_error", "at_notfound"}

port == ports[idx]

\* variant: the loop goes on with the last port of the list
next_candidate_last(ev) ==
    IF idx < Len(ports)
    THEN /\ idx' = Len(ports)
         /\ events' = Append(ev, Event("Testing", ports[Len(ports)], None))
         /\ disc_pc' = "at_testing"
    ELSE /\ idx' = idx
         /\ events' = Append(ev, Event("NotFound", None, None))
         /\ disc_pc' = "at_notfound"

\* leaving the body of the for loop: next candidate or the final yield
next_candidate(ev) ==
    IF idx < Len(ports)
    THEN /\ idx' = idx + 1
         /\ events' = Append(ev, Event("Testing", ports[idx + 1], None))
         /\ disc_pc' = "at_testing"
    ELSE /\ idx' = idx
         /\ events' = Append(ev, Event("NotFound", None, None))
         /\ disc_pc' = "at_notfound"

\* the except clause: yield "Error on {port}. Skipping."
except_skip ==
    /\ events' = Append(events, Event("Skipped", port, None))
    /\ disc_pc' = "at_error"
    /\ idx' = idx

\* the click: the generator is created and run up to its first yield
auto_detect_call ==
    /\ disc_pc = "idle"
    /\ \E n \in 0..NumPorts :
          /\ ports' = list_serial_ports(n)
          /\ device' \in [{AllPortNames[k] : k \in 1..n} -> ProbeOutcomes]
          /\ IF n = 0
             THEN /\ retval' = <<"No serial ports found.", None>>
                  /\ events' = <<>>
                  /\ disc_pc' = "done"
             ELSE /\ retval' = <<None, None>>
                  /\ events' = <<Event("Testing", AllPortNames[1], None)>>
                  /\ disc_pc' = "at_testing"
    /\ idx' = 1
    /\ ser' = None
    /\ response' = <<>>
    /\ disc_open' = {}
    /\ tried' = <<>>
    /\ UNCHANGED sess_vars
    /\ UNCHANGED fus_vars

\* resumed after "Testing port": serial.Serial(port, 115200, timeout=1, ...)
auto_detect_open ==
    /\ disc_pc = "at_testing"
    /\ tried' = Append(tried, port)
    /\ IF device[port] = <<"open_err">>
       THEN /\ except_skip
            /\ UNCHANGED <<ser, disc_open>>
       ELSE /\ ser' = port
            /\ \E finalized \in BOOLEAN :
                  \* the object ser was bound to loses its last reference
                  disc_open' = (IF finalized THEN disc_open \ {ser} ELSE disc_open)
                                  \cup {port}
            /\ disc_pc' = "opened"
            /\ UNCHANGED <<events, idx>>
    /\ UNCHANGED <<ports, response, retval, device>>
    /\ UNCHANGED sess_vars
    /\ UNCHANGED fus_vars

\* time.sleep(2); ser.write(b'PING\n')
auto_detect_ping ==
    /\ disc_pc = "opened"
    /\ IF device[port] = <<"write_err">>
       THEN except_skip
       ELSE /\ disc_pc' = "written"
            /\ UNCHANGED <<events, idx>>
    /\ UNCHANGED <<ports, ser, response, disc_open, retval, tried, device>>
    /\ UNCHANGED sess_vars
    /\ UNCHANGED fus_vars

\* response = ser.readline().decode('utf-8').strip()
auto_detect_readline ==
    /\ disc_pc = "written"
    /\ IF device[port] = <<"read_err">> \/ ~decode_strict(device[port]).ok
       THEN /\ except_skip
            /\ UNCHANGED response
       ELSE /\ response' = strip(decode_strict(device[port]).text)
            /\ disc_pc' = "read"
            /\ UNCHANGED <<events, idx>>
    /\ UNCHANGED <<ports, ser, disc_open, retval, tried, device>>
    /\ UNCHANGED sess_vars
    /\ UNCHANGED fus_vars

\* ser.close(); if response == "PONG": yield found; otherwise next port
auto_detect_close ==
    /\ disc_pc = "read"
    /\ disc_open' = disc_open \ {ser}
    /\ IF response = <<"PONG">>
       THEN /\ events' = Append(events, Event("Found", port, port))
            /\ disc_pc' = "at_found"
            /\ idx' = idx
       ELSE next_candidate(events)
    /\ UNCHANGED <<ports, ser, response, retval, tried, device>>
    /\ UNCHANGED sess_vars
    /\ UNCHANGED fus_vars

\* resumed after "Error on ... Skipping.": continue
auto_detect_continue ==
    /\ disc_pc = "at_error"
    /\ next_candidate(events)
    /\ UNCHANGED <<ports, ser, response, disc_open, retval, tried, device>>
    /\ UNCHANGED sess_vars
    /\ UNCHANGED fus_vars

\* variant: the found branch lacks its return and the loop goes on
auto_detect_return_continue ==
    /\ disc_pc \in {"at_found", "at_notfound"}
    /\ IF disc_pc = "at_found"
       THEN next_candidate(events)
       ELSE /\ disc_pc' = "done"
            /\ UNCHANGED <<idx, events>>
    /\ UNCHANGED <<ports, ser, response, disc_open, retval, tried, device>>
    /\ UNCHANGED sess_vars
    /\ UNCHANGED fus_vars

\* variant: the found branch leaves the loop with break, not return
auto_detect_return_break ==
    /\ disc_pc \in {"at_found", "at_notfound"}
    /\ IF disc_pc = "at_found"
       THEN /\ events' = Append(events, Event("NotFound", None, None))
            /\ disc_pc' = "at_notfound"
       ELSE /\ disc_pc' = "done"
            /\ UNCHANGED events
    /\ UNCHANGED <<ports, idx, ser, response, disc_open, retval, tried, device>>
    /\ UNCHANGED sess_vars
    /\ UNCHANGED fus_vars

\* resumed after the found or the failed yield: the generator returns
auto_detect_return ==
    /\ disc_pc \in {"at_found", "at_notfound"}
    /\ disc_pc' = "done"
    /\ \E finalized \in BOOLEAN :
          disc_open' = IF finalized THEN {} ELSE disc_open
    /\ UNCHANGED <<ports, idx, ser, response, events, retval, tried, device>>
    /\ UNCHANGED sess_vars
    /\ UNCHANGED fus_vars

\* the caller drops the generator at a yield
auto_detect_abandon ==
    /\ disc_pc \in Suspended
    /\ disc_pc' = "abandoned"
    /\ \E finalized \in BOOLEAN :
          disc_open' = IF finalized THEN {} ELSE disc_open
    /\ UNCHANGED <<ports, idx, ser, response, events, retval, tried, device>>
    /\ UNCHANGED sess_vars
    /\ UNCHANGED fus_vars

\* the finished or dropped generator object is released with its locals
auto_detect_release ==
    /\ disc_pc \in {"done", "abandoned"}
    /\ disc_pc' = "idle"
    /\ ports' = <<>>
    /\ idx' = 1
    /\ ser' = None
    /\ response' = <<>>
    /\ disc_open' = {}
    /\ events' = <<>>
    /\ retval' = <<None, None>>
    /\ tried' = <<>>
    /\ device' = <<>>
    /\ UNCHANGED sess_vars
    /\ UNCHANGED fus_vars

DiscInit ==
    /\ disc_pc = "idle"
    /\ ports = <<>>
    /\ idx = 1
    /\ ser = None
    /\ response = <<>>
    /\ disc_open = {}
    /\ events = <<>>
    /\ retval = <<None, None>>
    /\ tried = <<>>
    /\ device = <<>>

\* --------------------------------------------------------------- session
\* json.loads on a line of lexemes: a number or string literal, or an object
\* whose members are "key" : literal; whitespace between lexemes is skipped
NumberTokens == {"7", "1.2", "NaN"}
StringTokens == {"'eda_raw'", "'temp_c'"}
ScalarTokens == NumberTokens \cup StringTokens

json_scalar(tok) ==
    [type |-> IF tok \in NumberTokens THEN "number" ELSE "string",
     text |-> tok, members |-> {}]

json_object(members) == [type |-> "object", text |-> "", members |-> members]

JSONDecodeError == [ok |-> FALSE, value |-> json_object({})]

RECURSIVE skip_ws(_)
skip_ws(toks) ==
    IF toks = <<>> THEN <<>>
    ELSE IF Head(toks) \in Whitespace THEN skip_ws(Tail(toks))
    ELSE <<Head(toks)>> \o skip_ws(Tail(toks))

\* the members of an object, a later duplicate key replacing an earlier one
RECURSIVE json_members(_)
json_members(toks) ==
    IF \/ Len(toks) < 3
       \/ toks[1] \notin StringTokens
       \/ toks[2] # ":"
       \/ toks[3] \notin ScalarTokens
    THEN [ok |-> FALSE, members |-> {}]
    ELSE IF Len(toks) = 3
    THEN [ok |-> TRUE, members |-> {<<toks[1], json_scalar(toks[3])>>}]
    ELSE IF toks[4] # ","
    THEN [ok |-> FALSE, members |-> {}]
    ELSE LET rest == json_members(SubSeq(toks, 5, Len(toks)))
         IN  IF ~rest.ok THEN rest
             ELSE [ok |-> TRUE,
                   members |->
                      rest.members \cup
                      (IF \E m \in rest.members : m[1] = toks[1]
                       THEN {} ELSE {<<toks[1], json_scalar(toks[3])>>})]

json_loads(line) ==
    LET toks == skip_ws(line)
    IN  IF Len(toks) = 1 /\ toks[1] \in ScalarTokens
        THEN [ok |-> TRUE, value |-> json_scalar(toks[1])]
        ELSE IF Len(toks) >= 2 /\ toks[1] = "{" /\ toks[Len(toks)] = "}"
        THEN IF Len(toks) = 2
             THEN [ok |-> TRUE, value |-> json_object({})]
             ELSE LET m == json_members(SubSeq(toks, 2, Len(toks) - 1))
                  IN  IF m.ok THEN [ok |-> TRUE, value |-> json_object(m.members)]
                      ELSE JSONDecodeError
        ELSE JSONDecodeError

\* what bt_serial.readline() may return within the read timeout
TelemetryReads ==
    { <<>>,
      <<"CR", "LF">>,
      <<"{", "'eda_raw'", ":", "1.2", "}", "CR", "LF">>,
      <<"{", "}", "LF">>,
      <<"7", "LF">>,
      <<"not", "SP", "json", "LF">>,
      <<"{", "'eda_raw'", ":", "1.2", "LF">>,
      <<"xFF", "{", "}", "LF">> }

ReadError == <<"read_err">>

\* datetime.now().strftime("%Y-%m-%d %H:%M:%S"): the clock cut to whole seconds
strftime(now) == now \div TicksPerSecond

\* variant: setdefault, an existing key keeps its value
dict_setdefault(d, key, value) ==
    IF \E k \in 1..Len(d) : d[k].key = key
    THEN d
    ELSE Append(d, [key |-> key, value |-> value])

\* sensor_log[timestamp] = parsed_data on an insertion-ordered dict
dict_set(d, key, value) ==
    IF \E k \in 1..Len(d) : d[k].key = key
    THEN [k \in 1..Len(d) |->
             IF d[k].key = key THEN [key |-> key, value |-> value] ELSE d[k]]
    ELSE Append(d, [key |-> key, value |-> value])

NoHandle == [port |-> None, id |-> 0]

is_open(h) == h \in conn_open

Call(fn, arg, read, ret, stamp) ==
    [fn |-> fn, arg |-> arg, read |-> read, ret |-> ret, stamp |-> stamp]

NoRead == <<"no_read">>

\* the serial object a successful serial.Serial(...) creates
new_serial(port_name, live) ==
    [port |-> port_name,
     id |-> CHOOSE n \in 1..(Cardinality(live) + 1) :
                \A h \in live : h.id # n]

\* variant: the previous serial object is not closed
close_previous_skip == conn_open

\* if bt_serial and bt_serial.is_open: bt_serial.close()
close_previous ==
    IF bt_serial # NoHandle /\ is_open(bt_serial)
    THEN conn_open \ {bt_serial}
    ELSE conn_open

\* if not port_name: bt_serial = None; return "[Info] Port disconnected."
connect_none(port_name, live) ==
    /\ bt_serial' = NoHandle
    /\ conn_open' = live
    /\ last_call' = Call("connect_to_port", port_name, NoRead, "disconnected", 0)

\* bt_serial = serial.Serial(port_name, 115200, timeout=2) succeeded
connect_opened(port_name, live) ==
    LET h == new_serial(port_name, live)
    IN  /\ bt_serial' = h
        /\ conn_open' = live \cup {h}
        /\ last_call' = Call("connect_to_port", port_name, NoRead, "connected", 0)

\* variant: the except clause leaves bt_serial as it was
connect_failed_keep(port_name, live) ==
    /\ bt_serial' = bt_serial
    /\ conn_open' = live
    /\ last_call' = Call("connect_to_port", port_name, NoRead, "error", 0)

\* except serial.SerialException: bt_serial = None; return "[X] ERROR ..."
connect_failed(port_name, live) ==
    /\ bt_serial' = NoHandle
    /\ conn_open' = live
    /\ last_call' = Call("connect_to_port", port_name, NoRead, "error", 0)

\* variant: disconnecting forgets the latest line
connect_to_port_reset ==
    /\ \E port_name \in PortNames \cup {None, ""} :
          LET live == close_previous
          IN  IF port_name \in {None, ""}
              THEN /\ connect_none(port_name, live)
                   /\ latest_line' = <<>>
              ELSE /\ \E opens \in BOOLEAN :
                         IF opens
                         THEN connect_opened(port_name, live)
                         ELSE connect_failed(port_name, live)
                   /\ latest_line' = latest_line
    /\ UNCHANGED <<sensor_log, clock>>
    /\ UNCHANGED disc_vars
    /\ UNCHANGED fus_vars

connect_to_port ==
    /\ \E port_name \in PortNames \cup {None, ""} :
          LET live == close_previous
          IN  IF port_name \in {None, ""}
              THEN connect_none(port_name, live)
              ELSE \E opens \in BOOLEAN :
                      IF opens
                      THEN connect_opened(port_name, live)
                      ELSE connect_failed(port_name, live)
    /\ UNCHANGED <<sensor_log, latest_line, clock>>
    /\ UNCHANGED disc_vars
    /\ UNCHANGED fus_vars

\* return "Bluetooth not connected. Select a port first.", sensor_log
scan_disconnected ==
    /\ last_call' = Call("scan_bt_data", None, NoRead, "disconnected", 0)
    /\ UNCHANGED <<sensor_log, latest_line>>

\* except Exception: return "Error reading from Bluetooth: ...", sensor_log
scan_read_error(read) ==
    /\ last_call' = Call("scan_bt_data", None, read, "read_error", 0)
    /\ UNCHANGED <<sensor_log, latest_line>>

\* if not line: return "No new data received from ESP32. ...", sensor_log
scan_no_data(read) ==
    /\ last_call' = Call("scan_bt_data", None, read, "no_data", 0)
    /\ UNCHANGED <<sensor_log, latest_line>>

\* sensor_log[timestamp] = parsed_data; latest_line = line; return "Time: ..."
scan_parsed(read, line, parsed_data, timestamp) ==
    /\ sensor_log' = dict_set(sensor_log, timestamp, parsed_data)
    /\ latest_line' = line
    /\ last_call' = Call("scan_bt_data", None, read, "parsed", timestamp)

\* variant: latest_line is assigned before the line is parsed
scan_invalid_store(read, line, timestamp) ==
    /\ last_call' = Call("scan_bt_data", None, read, "malformed", timestamp)
    /\ latest_line' = line
    /\ UNCHANGED sensor_log

\* except json.JSONDecodeError: return "Time: ... Invalid Data Format: ..."
scan_invalid(read, line, timestamp) ==
    /\ last_call' = Call("scan_bt_data", None, read, "malformed", timestamp)
    /\ UNCHANGED <<sensor_log, latest_line>>

scan_bt_data ==
    /\ IF bt_serial = NoHandle \/ ~is_open(bt_serial)
       THEN scan_disconnected
       ELSE \E read \in TelemetryReads \cup {ReadError} :
               IF read = ReadError
               THEN scan_read_error(read)
               ELSE LET line == strip(decode_replace(read))
                        parsed == json_loads(line)
                    IN  IF line = <<>>
                        THEN scan_no_data(read)
                        ELSE IF parsed.ok
                        THEN scan_parsed(read, line, parsed.value, strftime(clock))
                        ELSE scan_invalid(read, line, strftime(clock))
    /\ UNCHANGED <<bt_serial, conn_open, clock>>
    /\ UNCHANGED disc_vars
    /\ UNCHANGED fus_vars

\* time passes between calls
tick ==
    /\ clock < MaxClock
    /\ clock' = clock + 1
    /\ UNCHANGED <<bt_serial, conn_open, sensor_log, latest_line, last_call>>
    /\ UNCHANGED disc_vars
    /\ UNCHANGED fus_vars

SessInit ==
    /\ bt_serial = NoHandle
    /\ conn_open = {}
    /\ sensor_log = <<>>
    /\ latest_line = <<>>
    /\ clock = 0
    /\ last_call = Call("none", None, NoRead, "none", 0)

\* -------------------------------------------------------------- numbers
\* a number is a fraction <<numerator, denominator>> in lowest terms with a
\* positive denominator; arithmetic on them is exact
RECURSIVE GCD(_, _)
GCD(a, b) == IF b = 0 THEN a ELSE GCD(b, a % b)

Abs(n) == IF n < 0 THEN -n ELSE n

Rat(n, d) ==
    LET g == GCD(Abs(n), Abs(d))
        sgn == IF d < 0 THEN -1 ELSE 1
    IN  <<sgn * (n \div g), sgn * (d \div g)>>

\* common factors are taken out before multiplying, so that intermediate
\* products stay as small as the result allows
RAdd(a, b) ==
    LET g == GCD(a[2], b[2])
    IN  Rat(a[1] * (b[2] \div g) + b[1] * (a[2] \div g), (a[2] \div g) * b[2])

RSub(a, b) == RAdd(a, <<-b[1], b[2]>>)

RMul(a, b) ==
    LET g1 == GCD(Abs(a[1]), b[2])
        g2 == GCD(Abs(b[1]), a[2])
    IN  Rat((a[1] \div g1) * (b[1] \div g2), (a[2] \div g2) * (b[2] \div g1))

RDiv(a, b) == RMul(a, IF b[1] < 0 THEN <<-b[2], -b[1]>> ELSE <<b[2], b[1]>>)
RAbs(a) == <<Abs(a[1]), a[2]>>

\* a < b, compared by integer parts and then by the inverted remainders
RECURSIVE RLt(_, _)
RLt(a, b) ==
    LET qa == a[1] \div a[2]
        qb == b[1] \div b[2]
        ra == a[1] % a[2]
        rb == b[1] % b[2]
    IN  IF qa # qb THEN qa < qb
        ELSE IF ra = 0 THEN rb > 0
        ELSE IF rb = 0 THEN FALSE
        ELSE RLt(<<b[2], rb>>, <<a[2], ra>>)

RLe(a, b) == a = b \/ RLt(a, b)

RECURSIVE RSum(_)
RSum(xs) == IF xs = <<>> THEN <<0, 1>> ELSE RAdd(Head(xs), RSum(Tail(xs)))

R0 == <<0, 1>>
R1 == <<1, 1>>
Point5 == <<1, 2>>
Epsilon == <<1, 1000000000>>

\* --------------------------------------------------------- the classifiers
\* labels are texts, word by word
Stressed == <<"Stressed">>
NotStressed == <<"Not", "Stressed">>

AudioNotLoaded == <<"Error", ":", "Audio", "model", "not", "loaded">>
AudioNoInput == <<"Error", ":", "No", "audio", "file", "provided">>
AudioFailed == <<"Error", "processing", "audio">>
FacialNotLoaded == <<"Error", ":", "Facial", "model", "not", "loaded">>
FacialNoInput == <<"Error", ":", "No", "facial", "image", "provided">>
FacialFailed == <<"Error", "processing", "facial", "image">>
SurveyNotLoaded == <<"Error", ":", "DASS-21", "model", "not", "loaded">>
SurveyNoInput == <<"Error", ":", "All", "questions", "must", "be", "answered">>
SurveyFailed == <<"Error", "with", "DASS-21", "input">>
PhysioNotLoaded == <<"Error", ":", "Physio", "model", "not", "loaded">>
PhysioNoData == <<"Physio", ":", "No", "data", "available">>
PhysioFormatError == <<"Physio", ":", "Data", "format", "error">>
PhysioFailed == <<"Physio", ":", "Prediction", "error">>

\* what stands in for the network's output: a failure, or P(stressed)
NotLoaded == <<"not_loaded">>
NoInput == <<"no_input">>
Raises == <<"raises">>
Failures == {NotLoaded, NoInput, Raises}

\* label = "Stressed" if prediction >= 0.5 else "Not Stressed"
label_of(prediction) ==
    IF RLe(Point5, prediction) THEN Stressed ELSE NotStressed

\* confidence = prediction if prediction >= 0.5 else 1 - prediction
confidence_of(prediction) ==
    IF RLe(Point5, prediction) THEN prediction ELSE RSub(R1, prediction)

predict_audio(out) ==
    CASE out = NotLoaded -> <<AudioNotLoaded, Point5>>
      [] out = NoInput -> <<AudioNoInput, Point5>>
      [] out = Raises -> <<AudioFailed, Point5>>
      [] OTHER -> <<label_of(out), confidence_of(out)>>

\* the network's output is [1 - out, out]; class_id is the first largest
predict_facial(out) ==
    CASE out = NotLoaded -> <<FacialNotLoaded, Point5>>
      [] out = NoInput -> <<FacialNoInput, Point5>>
      [] out = Raises -> <<FacialFailed, Point5>>
      [] OTHER ->
            LET class_id == IF RLt(RSub(R1, out), out) THEN 1 ELSE 0
            IN  <<IF class_id = 1 THEN Stressed ELSE NotStressed,
                  IF class_id = 1 THEN out ELSE RSub(R1, out)>>

\* return label, pred_prob
predict_dass21(out) ==
    CASE out = NotLoaded -> <<SurveyNotLoaded, Point5>>
      [] out = NoInput -> <<SurveyNoInput, Point5>>
      [] out = Raises -> <<SurveyFailed, Point5>>
      [] OTHER -> <<label_of(out), out>>

FeatureKeys ==
    {"'eda_raw'", "'bvp_ir_raw'", "'temp_c'", "'acc_x_raw'", "'acc_y_raw'",
     "'acc_z_raw'"}

predict_physio_from_line(line, out) ==
    IF out = NotLoaded THEN <<PhysioNotLoaded, Point5>>
    ELSE IF line = <<>> THEN <<PhysioNoData, Point5>>
    ELSE LET data == json_loads(line)
         IN  IF ~data.ok THEN <<PhysioFormatError, Point5>>
             \* data.get on a value that is not a dict
             ELSE IF data.value.type # "object" THEN <<PhysioFailed, Point5>>
             \* float() of a string
             ELSE IF \E m \in data.value.members :
                        m[1] \in FeatureKeys /\ m[2].type = "string"
             THEN <<PhysioFormatError, Point5>>
             ELSE IF out \in Failures THEN <<PhysioFailed, Point5>>
             ELSE <<label_of(out), confidence_of(out)>>

\* ----------------------------------------------------------------- fusion
\* str(label).lower(), word by word
lower(label) ==
    [k \in 1..Len(label) |->
        CASE label[k] = "Error" -> "error"
          [] label[k] = "Stressed" -> "stressed"
          [] label[k] = "Not" -> "not"
          [] label[k] = "Physio" -> "physio"
          [] label[k] = "No" -> "no"
          [] label[k] = "Audio" -> "audio"
          [] label[k] = "Facial" -> "facial"
          [] label[k] = "All" -> "all"
          [] label[k] = "Data" -> "data"
          [] label[k] = "Prediction" -> "prediction"
          [] label[k] = "DASS-21" -> "dass-21"
          [] OTHER -> label[k]]

\* variant: the confidence is passed on whatever the label
get_stress_confidence_no_flip(label, confidence) ==
    IF \E k \in 1..Len(label) : lower(label)[k] = "error" THEN Point5
    ELSE confidence

get_stress_confidence(label, confidence) ==
    IF \E k \in 1..Len(label) : lower(label)[k] = "error" THEN Point5
    ELSE IF lower(label) = <<"stressed">> THEN confidence
    ELSE RSub(R1, confidence)

\* 1 - abs(valid_confidences[i] - valid_confidences[j])
\* variant: the weight is the distance, not the closeness
closeness_distance(x, y) == RAbs(RSub(x, y))

closeness(x, y) == RSub(R1, RAbs(RSub(x, y)))

\* variant: a value is compared with the next one only
agree_score_next(v, i) == closeness(v[i], v[(i % Len(v)) + 1])

agree_score(v, i) ==
    RDiv(RSum([k \in 1..(Len(v) - 1) |->
                 closeness(v[i], v[IF k < i THEN k ELSE k + 1])]),
         <<Len(v) - 1, 1>>)

\* variant: the plain average of the valid values
agreement_fusion_mean(confidences) ==
    LET valid_confidences == SelectSeq(confidences, LAMBDA c : c # Point5)
        M == Len(valid_confidences)
    IN  IF M = 0 THEN Point5
        ELSE RDiv(RSum(valid_confidences), <<M, 1>>)

\* variant: a single valid value is not enough
agreement_fusion_need_two(confidences) ==
    LET valid_confidences == SelectSeq(confidences, LAMBDA c : c # Point5)
        M == Len(valid_confidences)
    IN  IF M <= 1 THEN Point5
        ELSE LET agree_scores == [i \in 1..M |-> agree_score(valid_confidences, i)]
                 sum_agree == RSum(agree_scores)
             IN  IF RLt(sum_agree, Epsilon)
                 THEN RDiv(RSum(valid_confidences), <<M, 1>>)
                 ELSE RDiv(RSum([i \in 1..M |->
                                   RMul(agree_scores[i], valid_confidences[i])]),
                           sum_agree)

\* variant: the neutral values are not filtered out
agreement_fusion_with_neutral(confidences) ==
    LET M == Len(confidences)
        agree_scores == [i \in 1..M |-> agree_score(confidences, i)]
        sum_agree == RSum(agree_scores)
    IN  IF RLt(sum_agree, Epsilon)
        THEN RDiv(RSum(confidences), <<M, 1>>)
        ELSE RDiv(RSum([i \in 1..M |-> RMul(agree_scores[i], confidences[i])]),
                  sum_agree)

\* variant: the weighted sum is divided by the number of values
agreement_fusion_unnormalised(confidences) ==
    LET valid_confidences == SelectSeq(confidences, LAMBDA c : c # Point5)
        M == Len(valid_confidences)
    IN  IF M = 0 THEN Point5
        ELSE IF M = 1 THEN valid_confidences[1]
        ELSE LET agree_scores == [i \in 1..M |-> agree_score(valid_confidences, i)]
                 sum_agree == RSum(agree_scores)
             IN  IF RLt(sum_agree, Epsilon)
                 THEN RDiv(RSum(valid_confidences), <<M, 1>>)
                 ELSE RDiv(RSum([i \in 1..M |->
                                   RMul(agree_scores[i], valid_confidences[i])]),
                           <<M, 1>>)

\* variant: the fallback returns the first valid value
agreement_fusion_fallback_first(confidences) ==
    LET valid_confidences == SelectSeq(confidences, LAMBDA c : c # Point5)
        M == Len(valid_confidences)
    IN  IF M = 0 THEN Point5
        ELSE IF M = 1 THEN valid_confidences[1]
        ELSE LET agree_scores == [i \in 1..M |-> agree_score(valid_confidences, i)]
                 sum_agree == RSum(agree_scores)
             IN  IF RLt(sum_agree, Epsilon)
                 THEN valid_confidences[1]
                 ELSE RDiv(RSum([i \in 1..M |->
                                   RMul(agree_scores[i], valid_confidences[i])]),
                           sum_agree)

agreement_fusion(confidences) ==
    LET valid_confidences == SelectSeq(confidences, LAMBDA c : c # Point5)
        M == Len(valid_confidences)
    IN  IF M = 0 THEN Point5
        ELSE IF M = 1 THEN valid_confidences[1]
        ELSE LET agree_scores == [i \in 1..M |-> agree_score(valid_confidences, i)]
                 sum_agree == RSum(agree_scores)
             IN  IF RLt(sum_agree, Epsilon)
                 THEN RDiv(RSum(valid_confidences), <<M, 1>>)
                 ELSE RDiv(RSum([i \in 1..M |->
                                   RMul(agree_scores[i], valid_confidences[i])]),
                           sum_agree)

\* overall_label = "Stressed" if fused_score >= 0.5 else "Not Stressed"
overall_label(fused_score) ==
    IF RLe(Point5, fused_score) THEN Stressed ELSE NotStressed

\* the values of the worked example [0.9, 0.85, 0.1, 0.5]
ExampleValues == {<<9, 10>>, <<17, 20>>, <<1, 10>>, <<1, 2>>}

GridValues == {Rat(k, 2 * GridHalf) : k \in 0..(2 * GridHalf)} \cup ExampleValues

\* the pairs a classifier hands over
ErrorLabels ==
    {AudioNotLoaded, AudioNoInput, AudioFailed, FacialNotLoaded, FacialNoInput,
     FacialFailed, SurveyNotLoaded, SurveyNoInput, SurveyFailed,
     PhysioNotLoaded, PhysioFormatError, PhysioFailed}

ModalityResults ==
    ((ErrorLabels \cup {Stressed, NotStressed}) \X GridValues)
        \cup {<<PhysioNoData, Point5>>}

NoNorm == [source |-> "none", label |-> <<>>, confidence |-> Point5,
           value |-> Point5]

\* get_stress_confidence applied to one (label, confidence) pair
normalise ==
    /\ \E lc \in ModalityResults :
          norm' = [source |-> "pair", label |-> lc[1], confidence |-> lc[2],
                   value |-> get_stress_confidence(lc[1], lc[2])]
    /\ UNCHANGED <<fusion, request>>
    /\ UNCHANGED <<disc_vars, sess_vars>>

Modalities == {"audio", "facial", "physio", "survey"}

predict(modality, out) ==
    CASE modality = "audio" -> predict_audio(out)
      [] modality = "facial" -> predict_facial(out)
      [] modality = "survey" -> predict_dass21(out)
      [] modality = "physio" ->
            predict_physio_from_line(<<"{", "'eda_raw'", ":", "1.2", "}">>, out)

\* one modality of fused_stress_prediction: predict, then normalise
predict_one ==
    /\ \E modality \in Modalities, out \in Failures \cup GridValues :
          LET lc == predict(modality, out)
          IN  norm' = [source |-> modality, label |-> lc[1],
                       confidence |-> lc[2],
                       value |-> get_stress_confidence(lc[1], lc[2])]
    /\ UNCHANGED <<fusion, request>>
    /\ UNCHANGED <<disc_vars, sess_vars>>

NoFusion == [confidences |-> <<>>, fused |-> Point5]

\* agreement_fusion applied once to four normalised confidences
fuse ==
    /\ fusion = NoFusion
    /\ \E c \in GridValues \X GridValues \X GridValues \X GridValues :
          fusion' = [confidences |-> c, fused |-> agreement_fusion(c)]
    /\ UNCHANGED <<norm, request>>
    /\ UNCHANGED <<disc_vars, sess_vars>>

\* a value within 5e-10 of 0, and its complement
Tiny == <<1, 2100000001>>

AlmostOne == <<2100000000, 2100000001>>

\* pairs of values at the two ends of [0, 1]
ExtremePairs == {<<R0, R1>>, <<Tiny, R1>>, <<R0, AlmostOne>>}

\* agreement_fusion applied once to two extreme values and two neutral ones
fuse_extreme ==
    /\ fusion = NoFusion
    /\ \E pr \in ExtremePairs, i, j \in 1..4 :
          /\ i # j
          /\ LET c == [k \in 1..4 |-> IF k = i THEN pr[1]
                                       ELSE IF k = j THEN pr[2] ELSE Point5]
             IN  fusion' = [confidences |-> c, fused |-> agreement_fusion(c)]
    /\ UNCHANGED <<norm, request>>
    /\ UNCHANGED <<disc_vars, sess_vars>>

\* what the audio, facial and survey networks may give in a request
RequestOutputs == {NoInput, <<4, 5>>}

\* what the physiological network may give in a request
PhysioOutputs == {NotLoaded, Raises, <<1, 5>>, <<4, 5>>}

NoRequest == [line |-> <<>>, confidences |-> <<>>, fused |-> Point5,
              label |-> <<>>]

\* the report button, pressed once: the four predictions, their fusion and
\* the verdict
fused_stress_prediction ==
    /\ request = NoRequest
    /\ \E audio \in RequestOutputs, facial \in RequestOutputs,
          physio \in PhysioOutputs, survey \in RequestOutputs :
          LET results == <<predict_audio(audio), predict_facial(facial),
                           predict_physio_from_line(latest_line, physio),
                           predict_dass21(survey)>>
              confidences == [k \in 1..4 |->
                                 get_stress_confidence(results[k][1],
                                                       results[k][2])]
              fused_score == agreement_fusion(confidences)
          IN  request' = [line |-> latest_line, confidences |-> confidences,
                          fused |-> fused_score,
                          label |-> overall_label(fused_score)]
    /\ UNCHANGED <<norm, fusion>>
    /\ UNCHANGED <<disc_vars, sess_vars>>

FusInit ==
    /\ norm = NoNorm
    /\ fusion = NoFusion
    /\ request = NoRequest

\* ------------------------------------------------------------ the system
vars == <<disc_vars, sess_vars, fus_vars>>

Init == DiscInit /\ SessInit /\ FusInit

NextDiscovery ==
    \/ auto_detect_call
    \/ auto_detect_open
    \/ auto_detect_ping
    \/ auto_detect_readline
    \/ auto_detect_close
    \/ auto_detect_continue
    \/ auto_detect_return
    \/ auto_detect_abandon
    \/ auto_detect_release

NextSession ==
    \/ connect_to_port
    \/ scan_bt_data
    \/ tick

\* The generator and the session share no variable, so every behaviour of
\* the whole system is, up to stuttering, a behaviour of each of the two below.
SpecDiscovery == Init /\ [][NextDiscovery]_vars

\* the caller iterates the generator, and every call in its body returns:
\* open, write and readline carry a timeout of one second
SpecDiscoveryFair == SpecDiscovery /\ WF_vars(NextDiscovery)

SpecSession == Init /\ [][NextSession]_vars

\* the session together with report requests
NextRequest ==
    \/ connect_to_port
    \/ scan_bt_data
    \/ tick
    \/ fused_stress_prediction

SpecRequest == Init /\ [][NextRequest]_vars

\* the pure functions, applied to inputs drawn from their domains
\* the session, passes and report requests served one at a time: a session
\* call is served between passes; a pass is started while the session is
\* unbound and no report was requested, and enumerates at most one port; the
\* report is requested between passes or when a pass has ended
NextFrame ==
    \/ disc_pc = "idle" /\ connect_to_port
    \/ disc_pc = "idle" /\ scan_bt_data
    \/ disc_pc = "idle" /\ tick
    \/ disc_pc \in {"idle", "done"} /\ fused_stress_prediction
    \/ request = NoRequest /\ bt_serial = NoHandle /\ auto_detect_call /\ Len(ports') <= 1
    \/ auto_detect_open
    \/ auto_detect_ping
    \/ auto_detect_readline
    \/ auto_detect_close
    \/ auto_detect_continue
    \/ auto_detect_return
    \/ auto_detect_abandon
    \/ auto_detect_release

SpecFrame == Init /\ [][NextFrame]_vars

NextNormalise ==
    \/ normalise
    \/ predict_one

SpecNormalise == Init /\ [][NextNormalise]_vars

SpecFusion == Init /\ [][fuse]_vars

NextFallback ==
    \/ fuse
    \/ fuse_extreme

SpecFallback == Init /\ [][NextFallback]_vars

Next ==
    \/ NextDiscovery
    \/ NextSession
    \/ fused_stress_prediction
    \/ NextNormalise
    \/ fuse
    \/ fuse_extreme

Spec == Init /\ [][Next]_vars

\* ======================================================== discovery claims
\* replies whose text is PONG once the surrounding whitespace is removed
PongReplies == {<<"PONG", "CR", "LF">>, <<"SP", "PONG", "LF">>}

RepliesPong(p) == device[p] \in PongReplies

SomePong == \E k \in 1..Len(ports) : RepliesPong(ports[k])

FirstPong ==
    CHOOSE k \in 1..Len(ports) :
        RepliesPong(ports[k]) /\ \A j \in 1..(k - 1) : ~RepliesPong(ports[j])

LastEvent == events[Len(events)]

\* C1: if some port replies PONG, the pass emits a success event for the
\* first such port in enumeration order, that event is the last event, and
\* no port after it is ever opened.
C1_FirstMatchStops ==
    SomePong =>
        /\ Len(tried) <= FirstPong
        /\ tried = SubSeq(ports, 1, Len(tried))
        /\ \A j \in 1..Len(events) :
              events[j].kind = "Found" =>
                 /\ j = Len(events)
                 /\ events[j].port = ports[FirstPong]
                 /\ events[j].value = ports[FirstPong]
        /\ disc_pc = "done" =>
              /\ events # <<>>
              /\ LastEvent = Event("Found", ports[FirstPong], ports[FirstPong])
              /\ tried = SubSeq(ports, 1, FirstPong)

C1_Witness ==
    /\ disc_pc = "done"
    /\ Len(ports) >= 3
    /\ ~RepliesPong(ports[1])
    /\ RepliesPong(ports[2])
    /\ RepliesPong(ports[3])
    /\ LastEvent = Event("Found", ports[2], ports[2])
    /\ tried = <<ports[1], ports[2]>>

\* C2: every port that is tried and does not reply exactly PONG produces a
\* failure/skip event before the next port is tried or the pass ends, so the
\* event before each later "Testing" event and before the not-found event
\* is a skip event.
C2_SkipEventPerFailedPort ==
    \A j \in 2..Len(events) :
        events[j].kind \in {"Testing", "NotFound"} =>
            /\ events[j - 1].kind = "Skipped"
            /\ events[j - 1].port \in PortNames

\* C3: a pass over an empty port list yields exactly one event, the terminal
\* no-ports event.
C3_NoPortsEvent ==
    (disc_pc = "done" /\ ports = <<>>) =>
        events = <<Event("NoPorts", None, None)>>

\* C4: over a non-empty list in which no port replies PONG the pass ends with
\* exactly one not-found event, the last event, emitted after every port has
\* been tried; a pass that emits a success event never emits not-found.
C4_NotFoundTerminal ==
    /\ \A j \in 1..Len(events) :
          events[j].kind = "NotFound" =>
             /\ j = Len(events)
             /\ ports # <<>>
             /\ tried = ports
             /\ ~SomePong
             /\ \A i \in 1..Len(events) : events[i].kind # "Found"
    /\ (disc_pc = "done" /\ ports # <<>> /\ ~SomePong) =>
          /\ events # <<>>
          /\ LastEvent = Event("NotFound", None, None)
          /\ tried = ports

C4_Witness ==
    /\ disc_pc = "done"
    /\ Len(ports) >= 3
    /\ device[ports[1]] = <<"open_err">>
    /\ device[ports[2]] = <<>>
    /\ device[ports[3]] = <<"PONG", "?", "LF">>
    /\ LastEvent = Event("NotFound", None, None)
    /\ tried = ports

\* C5: whenever the generator is suspended at an event every handle the pass
\* opened has been closed, and the pass never holds more than one port open.
C5_NoLeak ==
    /\ disc_pc \in Suspended => disc_open = {}
    /\ Cardinality(disc_open) <= 1

\* ========================================================== session claims
\* C6: at most one serial object opened by connect_to_port is open, it is
\* the bound one, and connect(None) leaves none open and the session unbound.
C6_SingleConnection ==
    /\ Cardinality(conn_open) <= 1
    /\ conn_open \subseteq {bt_serial}
    /\ NoHandle \notin conn_open
    /\ (last_call.fn = "connect_to_port" /\ last_call.arg \in {None, ""}) =>
          (bt_serial = NoHandle /\ conn_open = {})
    /\ (last_call.fn = "connect_to_port" /\ last_call.ret = "connected") =>
          (conn_open = {bt_serial} /\ bt_serial.port = last_call.arg)

C6_Witness ==
    /\ last_call.fn = "connect_to_port"
    /\ last_call.ret = "connected"
    /\ bt_serial.port = "COM4"
    /\ sensor_log # <<>>

\* C7: a connect that fails to open the port leaves the session unbound and
\* returns the error as its status; a read_one that follows reports
\* disconnected.
C7_FailedConnectUnbinds ==
    /\ []((last_call.fn = "connect_to_port" /\ last_call.ret = "error") =>
             (bt_serial = NoHandle /\ conn_open = {} /\ last_call.arg \in PortNames))
    /\ [][(/\ last_call.fn = "connect_to_port"
           /\ last_call.ret = "error"
           /\ scan_bt_data) => last_call'.ret = "disconnected"]_vars

C7_Witness ==
    /\ last_call.fn = "connect_to_port"
    /\ last_call.ret = "error"
    /\ sensor_log # <<>>

\* the reads whose text is neither blank nor JSON
MalformedReads ==
    { <<"not", "SP", "json", "LF">>,
      <<"{", "'eda_raw'", ":", "1.2", "LF">>,
      <<"xFF", "{", "}", "LF">> }

\* C8: a read_one whose line is non-empty but not JSON reports malformed
\* telemetry and leaves the sensor log and the latest line as they were.
C8_MalformedChangesNothing ==
    /\ [](last_call.fn = "scan_bt_data" =>
             (last_call.read \in MalformedReads <=> last_call.ret = "malformed"))
    /\ [][(scan_bt_data /\ last_call'.read \in MalformedReads) =>
             (sensor_log' = sensor_log /\ latest_line' = latest_line)]_vars

C8_Witness ==
    /\ last_call.fn = "scan_bt_data"
    /\ last_call.ret = "malformed"
    /\ last_call.read = <<"{", "'eda_raw'", ":", "1.2", "LF">>
    /\ latest_line = <<"7">>
    /\ sensor_log # <<>>

\* the reads whose text is JSON, with the text and the payload of each
ValidReads ==
    { <<"{", "'eda_raw'", ":", "1.2", "}", "CR", "LF">>,
      <<"{", "}", "LF">>,
      <<"7", "LF">> }

ExpectedLine(read) ==
    CASE read = <<"{", "'eda_raw'", ":", "1.2", "}", "CR", "LF">> ->
            <<"{", "'eda_raw'", ":", "1.2", "}">>
      [] read = <<"{", "}", "LF">> -> <<"{", "}">>
      [] read = <<"7", "LF">> -> <<"7">>

ExpectedPayload(read) ==
    CASE read = <<"{", "'eda_raw'", ":", "1.2", "}", "CR", "LF">> ->
            [type |-> "object", text |-> "",
             members |-> {<<"'eda_raw'",
                            [type |-> "number", text |-> "1.2", members |-> {}]>>}]
      [] read = <<"{", "}", "LF">> ->
            [type |-> "object", text |-> "", members |-> {}]
      [] read = <<"7", "LF">> ->
            [type |-> "number", text |-> "7", members |-> {}]

\* C9: a read_one on a bound session whose line is JSON reports parsed,
\* records the payload in the sensor log under the timestamp of the read and
\* sets the latest line to that line.
C9_ParsedRecorded ==
    /\ [](last_call.fn = "scan_bt_data" =>
             (last_call.read \in ValidReads <=> last_call.ret = "parsed"))
    /\ [][(scan_bt_data /\ last_call'.read \in ValidReads) =>
             /\ latest_line' = ExpectedLine(last_call'.read)
             /\ last_call'.stamp = clock \div TicksPerSecond
             /\ \E k \in 1..Len(sensor_log') :
                   sensor_log'[k] = [key |-> clock \div TicksPerSecond,
                                     value |-> ExpectedPayload(last_call'.read)]]_vars

C9_Witness ==
    /\ last_call.fn = "scan_bt_data"
    /\ last_call.ret = "parsed"
    /\ last_call.read = <<"{", "'eda_raw'", ":", "1.2", "}", "CR", "LF">>
    /\ last_call.stamp = 1
    /\ Len(sensor_log) = 2
    /\ sensor_log[2].key = 1
    /\ sensor_log[2].value = ExpectedPayload(last_call.read)
    /\ latest_line = <<"{", "'eda_raw'", ":", "1.2", "}">>

BlankReads == {<<>>, <<"CR", "LF">>}

\* C10: read_one with no session bound reports disconnected, read_one whose
\* read is empty or only whitespace reports no-data, and in both cases the
\* sensor log and the latest line are unchanged.
C10_DisconnectedAndNoData ==
    /\ [](last_call.fn = "scan_bt_data" =>
             (last_call.read \in BlankReads <=> last_call.ret = "no_data"))
    /\ [][scan_bt_data =>
             (bt_serial = NoHandle <=> last_call'.ret = "disconnected")]_vars
    /\ [][(scan_bt_data /\ (bt_serial = NoHandle \/ last_call'.read \in BlankReads)) =>
             (sensor_log' = sensor_log /\ latest_line' = latest_line)]_vars

C10_Witness ==
    /\ last_call.fn = "scan_bt_data"
    /\ last_call.ret = "no_data"
    /\ last_call.read = <<"CR", "LF">>
    /\ latest_line # <<>>
    /\ sensor_log # <<>>

\* C11: the sensor log is append-only: every parsed read adds one entry and
\* leaves every entry recorded before it in place with its payload.
C11_AppendOnly ==
    [][(scan_bt_data /\ last_call'.ret = "parsed") =>
          /\ Len(sensor_log') = Len(sensor_log) + 1
          /\ \A k \in 1..Len(sensor_log) : sensor_log'[k] = sensor_log[k]]_vars

\* ========================================================== fusion claims
\* C12: a report requested after a read that reported malformed telemetry
\* takes the physiological modality as unavailable: its normalised value,
\* the third of the four, is 0.5.
C12_MalformedMakesPhysioUnavailable ==
    [][(/\ last_call.fn = "scan_bt_data"
        /\ last_call.ret = "malformed"
        /\ request' # request) => request'.confidences[3] = Point5]_vars

UnavailableLabels == ErrorLabels \cup {PhysioNoData}

C20_CommonScale ==
    norm.source \in Modalities =>
        /\ norm.label = <<"Stressed">> => 2 * norm.value[1] >= norm.value[2]
        /\ norm.label = <<"Not", "Stressed">> => 2 * norm.value[1] <= norm.value[2]

\* the positions of the non-neutral inputs of the fusion
NonNeutral == {k \in DOMAIN fusion.confidences : fusion.confidences[k] # <<1, 2>>}

\* the two reorderings that generate all twenty-four
swap_first_two(c) == <<c[2], c[1], c[3], c[4]>>

rotate(c) == <<c[2], c[3], c[4], c[1]>>

C15_OutlierDownWeighted ==
    fusion.confidences = <<<<9, 10>>, <<17, 20>>, <<1, 10>>, <<1, 2>>>> =>
        /\ 2 * fusion.fused[1] > fusion.fused[2]
        /\ 8 * fusion.fused[1] < 7 * fusion.fused[2]
        /\ 60 * fusion.fused[1] > 37 * fusion.fused[2]

C15_Witness ==
    /\ fusion.confidences = <<<<9, 10>>, <<17, 20>>, <<1, 10>>, <<1, 2>>>>
    /\ fusion.fused = <<3, 4>>

\* C16: with no non-neutral input the fused score is 0.5, and with exactly
\* one it is that input.
C16_AtMostOneValid ==
    fusion # NoFusion =>
        /\ NonNeutral = {} => fusion.fused = <<1, 2>>
        /\ \A k \in 1..4 : NonNeutral = {k} => fusion.fused = fusion.confidences[k]

C16_Witness ==
    /\ fusion.confidences = <<<<1, 2>>, <<1, 2>>, <<1, 10>>, <<1, 2>>>>
    /\ fusion.fused = <<1, 10>>

C19_SingleOutlierCannotFlip ==
    (fusion # NoFusion /\ Cardinality(NonNeutral) >= 3) =>
        \A i \in NonNeutral :
            /\ (\A j \in NonNeutral \ {i} : RLt(<<1, 2>>, fusion.confidences[j]))
                  => overall_label(fusion.fused) = <<"Stressed">>
            /\ (\A j \in NonNeutral \ {i} : RLt(fusion.confidences[j], <<1, 2>>))
                  => overall_label(fusion.fused) = <<"Not", "Stressed">>

\* C19: with at least three non-neutral inputs of which all but one lie on
\* the same side of 0.5 and at least 0.2 away from it, the fused label is
\* the label of that side, whatever the remaining input is.
C19_ClearMajorityCannotFlip ==
    (fusion # NoFusion /\ Cardinality(NonNeutral) >= 3) =>
        \A i \in NonNeutral :
            /\ (\A j \in NonNeutral \ {i} : RLe(<<7, 10>>, fusion.confidences[j]))
                  => overall_label(fusion.fused) = <<"Stressed">>
            /\ (\A j \in NonNeutral \ {i} : RLe(fusion.confidences[j], <<3, 10>>))
                  => overall_label(fusion.fused) = <<"Not", "Stressed">>

C19_Witness ==
    /\ fusion.confidences = <<<<17, 20>>, <<0, 1>>, <<9, 10>>, <<1, 2>>>>
    /\ overall_label(fusion.fused) = <<"Stressed">>

\* the non-neutral inputs of the fusion, in order
valid_values == SelectSeq(fusion.confidences, LAMBDA c : c # <<1, 2>>)

\* the fallback of the fusion is taken: at least two non-neutral values
\* whose agreement scores sum to less than 1e-9
FallbackTaken ==
    /\ fusion # NoFusion
    /\ Len(valid_values) >= 2
    /\ RLt(RSum([i \in 1..Len(valid_values) |-> agree_score(valid_values, i)]),
           <<1, 1000000000>>)

\* the fused score is the unweighted mean of the non-neutral values
FusedIsMean == RMul(<<Len(valid_values), 1>>, fusion.fused) = RSum(valid_values)

\* C21 as stated: in the fallback the fused score is the unweighted mean of
\* the non-neutral values, and the fallback is taken only when these are
\* exactly one 0 and one 1.
C21_FallbackOnlyZeroAndOne ==
    FallbackTaken =>
        /\ FusedIsMean
        /\ Len(valid_values) = 2
        /\ {valid_values[1], valid_values[2]} = {<<0, 1>>, <<1, 1>>}

\* C21: in the fallback the fused score is the unweighted mean of the
\* non-neutral values, and the fallback is taken only when these are exactly
\* two values that differ by more than 1 - 5e-10.
C21_FallbackOnlyOppositeEnds ==
    FallbackTaken =>
        /\ FusedIsMean
        /\ Len(valid_values) = 2
        /\ RLt(<<1999999999, 2000000000>>,
               RAbs(RSub(valid_values[1], valid_values[2])))

C21_Witness ==
    /\ FallbackTaken
    /\ fusion.confidences = <<<<1, 2>>, <<1, 2100000001>>, <<1, 2>>, <<1, 1>>>>
    /\ fusion.fused = <<1050000001, 2100000001>>

\* ============================================================ later claims
\* a pass is under way: the generator exists and has not ended
PassRunning == disc_pc \notin {"idle", "done", "abandoned"}

\* the probe of port p has finished: with an error event, or with a reply
\* that was read, found different from PONG, and the handle closed
ProbeFinished(p) ==
    \/ \E k \in 1..Len(events) : events[k] = Event("Skipped", p, None)
    \/ /\ device[p] \notin ProbeErrors
       /\ decode_strict(device[p]).ok
       /\ response = strip(decode_strict(device[p]).text)
       /\ response # <<"PONG">>
       /\ p \notin disc_open

\* C22: a discovery pass ends; the ports it has opened are the first ports
\* of the enumeration, in order and without repetition; and a port is opened
\* only when the probe of the port before it has finished.
C22_PassTerminatesInOrder ==
    /\ [](/\ Len(tried) <= Len(ports)
          /\ \A k \in 1..Len(tried) : tried[k] = ports[k]
          /\ \A j, k \in 1..Len(tried) : tried[j] = tried[k] => j = k)
    /\ [][(tried' # tried /\ tried' # <<>>) =>
             /\ tried' = Append(tried, ports[Len(tried) + 1])
             /\ tried # <<>> => ProbeFinished(tried[Len(tried)])]_vars
    /\ (PassRunning ~> disc_pc \in {"done", "abandoned"})

C22_Witness ==
    /\ disc_pc = "opened"
    /\ Len(ports) = 3
    /\ tried = ports
    /\ \E k \in 1..Len(events) : events[k] = Event("Skipped", tried[1], None)
    /\ device[tried[2]] \notin ProbeErrors

\* C23: a connect call, whatever its outcome, and every step of a discovery
\* pass leave the sensor log and the latest line as they were; and a report
\* requested once the session was disconnected, rebound or failed to bind,
\* or once a pass has ended, takes the latest line as it stands, so that a
\* line parsed on the earlier session gives the physiological value.
C23_ConnectAndPassKeepLine ==
    /\ [][(last_call'.fn = "connect_to_port" \/ disc_vars' # disc_vars) =>
             /\ sensor_log' = sensor_log
             /\ latest_line' = latest_line]_vars
    /\ [][(/\ request' # request
           /\ last_call.fn = "connect_to_port" \/ disc_pc = "done") =>
             /\ request'.line = latest_line
             /\ \E out \in PhysioOutputs :
                   LET physio == predict_physio_from_line(latest_line, out)
                   IN  request'.confidences[3] =
                          get_stress_confidence(physio[1], physio[2])
             /\ latest_line = <<>> => request'.confidences[3] = <<1, 2>>]_vars

\* a report after a disconnect that takes its physiological value from the
\* line parsed before
C23_Witness ==
    /\ last_call.fn = "connect_to_port"
    /\ last_call.arg = None
    /\ bt_serial = NoHandle
    /\ sensor_log # <<>>
    /\ request.line = <<"{", "'eda_raw'", ":", "1.2", "}">>
    /\ request.confidences[3] = <<4, 5>>
====
